---- MODULE Spec2Model ----
(***************************************************************************)
(* Model of bp-std's descriptor core: the SpkClass classification with its *)
(* dust limits and derived ordering, and the StdDescr tagged union that    *)
(* forwards every Derive / Descriptor operation to its active variant.     *)
(*                                                                         *)
(* Callers (threads) share one immutable StdDescr value and invoke its     *)
(* operations; each call is recorded with its arguments and its result.    *)
(* The inner descriptors Wpkh<K> and TrKey<K> and the key type K live in   *)
(* other files of the repository; they are modelled from the               *)
(* specification (single key, opaque deterministic derivation).            *)
(***************************************************************************)
EXTENDS Integers, Sequences, FiniteSets

VARIABLES
    descr,   \* the StdDescr value all callers share (&self)
    fresh,   \* the value as it was constructed (history variable)
    last,    \* last[t]: the last call thread t made: operation, arguments, result
    memo,    \* an earlier call, since overwritten in last (history variable)
    iters    \* iters[t]: the KeyIter thread t holds (vec::IntoIter), if any

vars == <<descr, fresh, last, memo, iters>>

(***************************************************************************)
(* Bounds of the model.                                                    *)
(***************************************************************************)
MaxXpub == 2
MaxIndex == 1

Threads == {"t1", "t2"}
XpubSpecs == 1..MaxXpub
Keychains == {0, 1}
NormalIndexes == 0..MaxIndex
Terminals == Keychains \X NormalIndexes

(***************************************************************************)
(* SpkClass                                                                *)
(***************************************************************************)
SpkClass == {"Bare", "P2pkh", "P2sh", "P2wpkh", "P2wsh", "P2tr"}

\* The discriminant of each variant: its position in the declaration.
Discriminant(c) ==
    CASE c = "Bare" -> 0
      [] c = "P2pkh" -> 1
      [] c = "P2sh" -> 2
      [] c = "P2wpkh" -> 3
      [] c = "P2wsh" -> 4
      [] c = "P2tr" -> 5

\* Fault: P2tr placed in the P2wpkh arm.
dust_limit_merged(self) ==
    CASE self = "Bare" -> 0
      [] self = "P2pkh" -> 546
      [] self = "P2sh" -> 540
      [] self \in {"P2wpkh", "P2tr"} -> 294
      [] self = "P2wsh" -> 330

dust_limit(self) ==
    CASE self = "Bare" -> 0
      [] self = "P2pkh" -> 546
      [] self = "P2sh" -> 540
      [] self = "P2wpkh" -> 294
      [] self \in {"P2wsh", "P2tr"} -> 330

IntCmp(a, b) == IF a < b THEN "Less" ELSE IF a > b THEN "Greater" ELSE "Equal"

\* Fault: an order by dust limit.
SpkClass_cmp_by_dust(a, b) == IntCmp(dust_limit(a), dust_limit(b))

\* #[derive(Ord, PartialOrd)] on a fieldless enum compares discriminants.
SpkClass_cmp(a, b) == IntCmp(Discriminant(a), Discriminant(b))

(***************************************************************************)
(* Call records                                                            *)
(***************************************************************************)
Call(op, args, ret) == [op |-> op, args |-> args, ret |-> ret]
NoCall == Call("none", <<>>, <<>>)
NoIter == [live |-> FALSE, rest |-> <<>>]

\* The caller receives the result; the record it overwrites may be kept as the
\* earlier call that later results are compared with.
MemoOps == {"dust_limit", "cmp", "derive", "compr_keyset", "xonly_keyset"}

Return(t, rec) ==
    /\ last' = [last EXCEPT ![t] = rec]
    /\ \/ memo' = memo
       \/ /\ last[t].op \in MemoOps
          /\ memo' = last[t]

(***************************************************************************)
(* Key type K (XpubDerivable): an extended key with its XpubSpec.  Its     *)
(* derivation arithmetic is an external collaborator: an opaque,           *)
(* deterministic, injective function of (key, keychain, index).            *)
(***************************************************************************)
K == [xpub : XpubSpecs]

K_xpub_spec(k) == k.xpub
K_keychains(k) == Keychains
K_default_keychain(k) == CHOOSE c \in K_keychains(k) : \A o \in K_keychains(k) : c <= o

Point(k, keychain, index) ==
    (k.xpub * Cardinality(Keychains) + keychain) * (MaxIndex + 1) + index

\* Derive<CompressedPk> for K: a point with its parity
K_derive_compr(k, keychain, index) ==
    [odd |-> Point(k, keychain, index) % 2 = 1, x |-> Point(k, keychain, index)]

\* Derive<XOnlyPk> for K: the x coordinate alone
K_derive_xonly(k, keychain, index) == Point(k, keychain, index)

KeyOrigin_with(origin, terminal) == [origin |-> origin, terminal |-> terminal]
TapDerivation_with(origin, terminal) ==
    [leaf_hashes |-> <<>>, origin |-> KeyOrigin_with(origin, terminal)]

(***************************************************************************)
(* IndexMap: an insertion-ordered map, here a sequence of <<key, value>>.  *)
(***************************************************************************)
IndexMap_new == <<>>

IndexMap_insert(m, k, v) ==
    IF \E i \in 1..Len(m) : m[i][1] = k
    THEN [i \in 1..Len(m) |-> IF m[i][1] = k THEN <<k, v>> ELSE m[i]]
    ELSE Append(m, <<k, v>>)

\* Iterator::collect::<Vec<_>>(): drains the iterator front to back.
RECURSIVE collect(_)
collect(it) == IF it = <<>> THEN <<>> ELSE <<Head(it)>> \o collect(Tail(it))

(***************************************************************************)
(* Wpkh<K>(K) and TrKey<K>(K): tuple structs around one key, d[1] = self.0 *)
(***************************************************************************)
Wpkh_default_keychain(d) == K_default_keychain(d[1])
Wpkh_keychains(d) == K_keychains(d[1])
Wpkh_derive(d, keychain, index) == <<"p2wpkh", K_derive_compr(d[1], keychain, index)>>
Wpkh_class(d) == "P2wpkh"
Wpkh_keys(d) == <<d[1]>>
Wpkh_xpubs(d) == <<K_xpub_spec(d[1])>>

\* Fault: the entry pushed twice, without map semantics.
Wpkh_compr_keyset_dup(d, terminal) ==
    LET key == K_derive_compr(d[1], terminal[1], terminal[2])
        org == KeyOrigin_with(K_xpub_spec(d[1]), terminal)
    IN  <<<<key, org>>, <<key, org>>>>

Wpkh_compr_keyset(d, terminal) ==
    IndexMap_insert(IndexMap_new,
                    K_derive_compr(d[1], terminal[1], terminal[2]),
                    KeyOrigin_with(K_xpub_spec(d[1]), terminal))

Wpkh_xonly_keyset(d, terminal) == IndexMap_new

TrKey_default_keychain(d) == K_default_keychain(d[1])
TrKey_keychains(d) == K_keychains(d[1])
TrKey_derive(d, keychain, index) == <<"p2tr", K_derive_xonly(d[1], keychain, index)>>
TrKey_class(d) == "P2tr"
TrKey_keys(d) == <<d[1]>>
TrKey_xpubs(d) == <<K_xpub_spec(d[1])>>
TrKey_compr_keyset(d, terminal) == IndexMap_new

TrKey_xonly_keyset(d, terminal) ==
    IndexMap_insert(IndexMap_new,
                    K_derive_xonly(d[1], terminal[1], terminal[2]),
                    TapDerivation_with(K_xpub_spec(d[1]), terminal))

(***************************************************************************)
(* StdDescr: the tagged union and its dispatch                             *)
(***************************************************************************)
Tags == {"Wpkh", "TrKey"}
StdDescr == [tag : Tags, inner : {<<k>> : k \in K}]

StdDescr_default_keychain(self) ==
    CASE self.tag = "Wpkh" -> Wpkh_default_keychain(self.inner)
      [] self.tag = "TrKey" -> TrKey_default_keychain(self.inner)

StdDescr_keychains(self) ==
    CASE self.tag = "Wpkh" -> Wpkh_keychains(self.inner)
      [] self.tag = "TrKey" -> TrKey_keychains(self.inner)

\* Fault: the arms forward to the other variant.
StdDescr_derive_swapped(self, keychain, index) ==
    CASE self.tag = "Wpkh" -> TrKey_derive(self.inner, keychain, index)
      [] self.tag = "TrKey" -> Wpkh_derive(self.inner, keychain, index)

StdDescr_derive(self, keychain, index) ==
    CASE self.tag = "Wpkh" -> Wpkh_derive(self.inner, keychain, index)
      [] self.tag = "TrKey" -> TrKey_derive(self.inner, keychain, index)

StdDescr_class(self) ==
    CASE self.tag = "Wpkh" -> Wpkh_class(self.inner)
      [] self.tag = "TrKey" -> TrKey_class(self.inner)

StdDescr_keys(self) ==
    CASE self.tag = "Wpkh" -> collect(Wpkh_keys(self.inner))
      [] self.tag = "TrKey" -> collect(TrKey_keys(self.inner))

\* Fault: one unit value per key.
StdDescr_vars_of_keys(self) == [i \in 1..Len(StdDescr_keys(self)) |-> "unit"]

StdDescr_vars(self) == <<>>

StdDescr_xpubs(self) ==
    CASE self.tag = "Wpkh" -> collect(Wpkh_xpubs(self.inner))
      [] self.tag = "TrKey" -> collect(TrKey_xpubs(self.inner))

StdDescr_compr_keyset(self, terminal) ==
    CASE self.tag = "Wpkh" -> Wpkh_compr_keyset(self.inner, terminal)
      [] self.tag = "TrKey" -> TrKey_compr_keyset(self.inner, terminal)

\* Fault: the tag is not matched.
StdDescr_xonly_keyset_untagged(self, terminal) == TrKey_xonly_keyset(self.inner, terminal)

StdDescr_xonly_keyset(self, terminal) ==
    CASE self.tag = "Wpkh" -> Wpkh_xonly_keyset(self.inner, terminal)
      [] self.tag = "TrKey" -> TrKey_xonly_keyset(self.inner, terminal)

(***************************************************************************)
(* serde: #[derive(Serialize, Deserialize)] with rename_all = "camelCase". *)
(* An enum is externally tagged: the renamed variant name and the payload; *)
(* a newtype struct serializes as the value it wraps.                      *)
(***************************************************************************)
Ident(tag) ==
    CASE tag = "Wpkh" -> <<"W", "p", "k", "h">>
      [] tag = "TrKey" -> <<"T", "r", "K", "e", "y">>

to_ascii_lowercase(ch) ==
    CASE ch = "W" -> "w"
      [] ch = "T" -> "t"
      [] ch = "K" -> "k"
      [] OTHER -> ch

\* RenameRule::CamelCase on a variant: the first character lowered.
RenameCamelCase(ident) == <<to_ascii_lowercase(ident[1])>> \o Tail(ident)

\* The key's own wire form: its fields in order.
K_serialize(k) == <<k.xpub>>
K_deserialize(w) == [xpub |-> w[1]]

StdDescr_serialize(self) ==
    [variant |-> RenameCamelCase(Ident(self.tag)), value |-> K_serialize(self.inner[1])]

\* Fault: any known variant name yields the first variant.
StdDescr_deserialize_first(w) ==
    IF \E tag \in Tags : RenameCamelCase(Ident(tag)) = w.variant
    THEN [ok |-> TRUE, val |-> [tag |-> "Wpkh", inner |-> <<K_deserialize(w.value)>>]]
    ELSE [ok |-> FALSE, val |-> "unknown variant"]

StdDescr_deserialize(w) ==
    IF \E tag \in Tags : RenameCamelCase(Ident(tag)) = w.variant
    THEN [ok |-> TRUE,
          val |-> [tag |-> CHOOSE tag \in Tags : RenameCamelCase(Ident(tag)) = w.variant,
                   inner |-> <<K_deserialize(w.value)>>]]
    ELSE [ok |-> FALSE, val |-> "unknown variant"]

(***************************************************************************)
(* Operations on SpkClass                                                  *)
(***************************************************************************)
DustLimitCall(t) ==
    /\ \E c \in SpkClass : Return(t, Call("dust_limit", <<c>>, dust_limit(c)))
    /\ UNCHANGED <<descr, fresh, iters>>

CmpCall(t) ==
    /\ \E a \in SpkClass, b \in SpkClass :
          Return(t, Call("cmp", <<a, b>>, SpkClass_cmp(a, b)))
    /\ UNCHANGED <<descr, fresh, iters>>

(***************************************************************************)
(* Operations on the shared StdDescr value; every one takes &self.         *)
(***************************************************************************)
\* Fault helper: a receiver whose key moves on to the next xpub.
Advance(d) == [d EXCEPT !.inner = <<[xpub |-> (d.inner[1].xpub % MaxXpub) + 1]>>]

DefaultKeychainCall(t) ==
    /\ Return(t, Call("default_keychain", <<>>, StdDescr_default_keychain(descr)))
    /\ UNCHANGED <<descr, fresh, iters>>

KeychainsCall(t) ==
    /\ Return(t, Call("keychains", <<>>, StdDescr_keychains(descr)))
    /\ UNCHANGED <<descr, fresh, iters>>

\* Fault: derive through a mutable receiver.
DeriveCallAdvancing(t) ==
    /\ \E keychain \in Keychains, index \in NormalIndexes :
          Return(t, Call("derive", <<keychain, index>>,
                         StdDescr_derive(descr, keychain, index)))
    /\ descr' = Advance(descr)
    /\ UNCHANGED <<fresh, iters>>

DeriveCall(t) ==
    /\ \E keychain \in Keychains, index \in NormalIndexes :
          Return(t, Call("derive", <<keychain, index>>,
                         StdDescr_derive(descr, keychain, index)))
    /\ UNCHANGED <<descr, fresh, iters>>

ClassCall(t) ==
    /\ Return(t, Call("class", <<>>, StdDescr_class(descr)))
    /\ UNCHANGED <<descr, fresh, iters>>

\* Fault: the call hands out what is left of an iterator already given out.
KeysCallShared(t) ==
    /\ \E u \in Threads :
          LET items == IF iters[u].live THEN iters[u].rest ELSE StdDescr_keys(descr)
          IN  /\ Return(t, Call("keys", <<>>, items))
              /\ iters' = [iters EXCEPT ![t] = [live |-> TRUE, rest |-> items]]
    /\ UNCHANGED <<descr, fresh>>

\* keys(): the collected Vec, returned as a fresh vec::IntoIter the caller owns.
KeysCall(t) ==
    /\ Return(t, Call("keys", <<>>, StdDescr_keys(descr)))
    /\ iters' = [iters EXCEPT ![t] = [live |-> TRUE, rest |-> StdDescr_keys(descr)]]
    /\ UNCHANGED <<descr, fresh>>

\* Iterator::next on the KeyIter the caller holds: Some(item) or None.
IterNext(t) ==
    /\ iters[t].live
    /\ IF iters[t].rest = <<>>
       THEN /\ Return(t, Call("next", <<>>, <<>>))
            /\ UNCHANGED iters
       ELSE /\ Return(t, Call("next", <<>>, <<Head(iters[t].rest)>>))
            /\ iters' = [iters EXCEPT ![t].rest = Tail(iters[t].rest)]
    /\ UNCHANGED <<descr, fresh>>

VarsCall(t) ==
    /\ Return(t, Call("vars", <<>>, StdDescr_vars(descr)))
    /\ UNCHANGED <<descr, fresh, iters>>

XpubsCall(t) ==
    /\ Return(t, Call("xpubs", <<>>, StdDescr_xpubs(descr)))
    /\ UNCHANGED <<descr, fresh, iters>>

\* Fault: compr_keyset through a mutable receiver.
ComprKeysetCallAdvancing(t) ==
    /\ \E terminal \in Terminals :
          Return(t, Call("compr_keyset", terminal, StdDescr_compr_keyset(descr, terminal)))
    /\ descr' = Advance(descr)
    /\ UNCHANGED <<fresh, iters>>

ComprKeysetCall(t) ==
    /\ \E terminal \in Terminals :
          Return(t, Call("compr_keyset", terminal, StdDescr_compr_keyset(descr, terminal)))
    /\ UNCHANGED <<descr, fresh, iters>>

XonlyKeysetCall(t) ==
    /\ \E terminal \in Terminals :
          Return(t, Call("xonly_keyset", terminal, StdDescr_xonly_keyset(descr, terminal)))
    /\ UNCHANGED <<descr, fresh, iters>>

SerializeCall(t) ==
    /\ Return(t, Call("serialize", <<>>, StdDescr_serialize(descr)))
    /\ UNCHANGED <<descr, fresh, iters>>

\* The input is a wire value some caller obtained by serializing, or that value
\* with the variant's name as declared (not renamed).
DeserializeCall(t) ==
    /\ \E u \in Threads :
          /\ last[u].op = "serialize"
          /\ \E w \in {last[u].ret, [last[u].ret EXCEPT !.variant = Ident(descr.tag)]} :
                Return(t, Call("deserialize", w, StdDescr_deserialize(w)))
    /\ UNCHANGED <<descr, fresh, iters>>

(***************************************************************************)
(* Specifications                                                          *)
(***************************************************************************)
Init ==
    /\ descr \in StdDescr
    /\ fresh = descr
    /\ last = [t \in Threads |-> NoCall]
    /\ memo = NoCall
    /\ iters = [t \in Threads |-> NoIter]

Next ==
    \E t \in Threads :
        \/ DefaultKeychainCall(t)
        \/ KeychainsCall(t)
        \/ DeriveCall(t)
        \/ ClassCall(t)
        \/ KeysCall(t)
        \/ VarsCall(t)
        \/ XpubsCall(t)
        \/ ComprKeysetCall(t)
        \/ XonlyKeysetCall(t)

Spec == Init /\ [][Next]_vars

\* Callers that walk the key iterators they were given, and callers that
\* serialize the value and read it back.
NextValue ==
    \E t \in Threads :
        \/ KeysCall(t)
        \/ IterNext(t)
        \/ SerializeCall(t)
        \/ DeserializeCall(t)

SpecValue == Init /\ [][NextValue]_vars

\* Callers that only use SpkClass; the descriptor plays no part.
InitClass ==
    /\ descr = [tag |-> "Wpkh", inner |-> <<[xpub |-> 1]>>]
    /\ fresh = descr
    /\ last = [t \in Threads |-> NoCall]
    /\ memo = NoCall
    /\ iters = [t \in Threads |-> NoIter]

NextClass == \E t \in Threads : DustLimitCall(t) \/ CmpCall(t)

SpecClass == InitClass /\ [][NextClass]_vars

(***************************************************************************)
(* Properties                                                              *)
(***************************************************************************)
Other(t) == CHOOSE u \in Threads : u # t

\* C1: dust_limit returns exactly the table value for every SpkClass
\* (Bare 0, P2pkh 546, P2sh 540, P2wpkh 294, P2wsh 330, P2tr 330), and a
\* repeated call on the same class returns the value an earlier call returned.
C1_DustLimitTable ==
    \A t \in Threads :
        last[t].op = "dust_limit" =>
            LET c == last[t].args[1]
                r == last[t].ret
            IN  /\ c = "Bare" => r = 0
                /\ c = "P2pkh" => r = 546
                /\ c = "P2sh" => r = 540
                /\ c = "P2wpkh" => r = 294
                /\ c = "P2wsh" => r = 330
                /\ c = "P2tr" => r = 330
                /\ (memo.op = "dust_limit" /\ memo.args = last[t].args) => memo.ret = r
                /\ \A u \in Threads :
                      (last[u].op = "dust_limit" /\ last[u].args = last[t].args)
                          => last[u].ret = r

C1_Witness ==
    /\ memo.op = "dust_limit" /\ memo.args = <<"P2tr">>
    /\ \A t \in Threads :
          last[t].op = "dust_limit" /\ last[t].args = <<"P2tr">> /\ last[t].ret = 330

\* The order the claim states, as a chain.
ClaimedChain == <<"Bare", "P2pkh", "P2sh", "P2wpkh", "P2wsh", "P2tr">>
ClaimedPos(c) == CHOOSE i \in 1..Len(ClaimedChain) : ClaimedChain[i] = c
IsCmp(rec, a, b) == rec.op = "cmp" /\ rec.args = <<a, b>>

\* C10: SpkClass compares by declaration order, Bare < P2pkh < P2sh < P2wpkh <
\* P2wsh < P2tr: every comparison agrees with the chain, is Equal only for the
\* same class, is antisymmetric and transitive over the comparisons made, and
\* does not follow the dust limits (P2wsh < P2tr, P2pkh < P2wpkh).
C10_DeclarationOrder ==
    /\ \A t \in Threads :
          last[t].op = "cmp" =>
              LET a == last[t].args[1]
                  b == last[t].args[2]
                  r == last[t].ret
              IN  /\ r \in {"Less", "Equal", "Greater"}
                  /\ (r = "Less") = (ClaimedPos(a) < ClaimedPos(b))
                  /\ (r = "Equal") = (a = b)
                  /\ (a = "P2wsh" /\ b = "P2tr") => r = "Less"
                  /\ (a = "P2pkh" /\ b = "P2wpkh") => r = "Less"
                  /\ IsCmp(last[Other(t)], b, a) =>
                        (r = "Less") = (last[Other(t)].ret = "Greater")
                  /\ \A m \in SpkClass :
                        (/\ IsCmp(memo, m, a) /\ memo.ret = "Less"
                         /\ r = "Less"
                         /\ IsCmp(last[Other(t)], m, b))
                            => last[Other(t)].ret = "Less"

C10_Witness ==
    \E t \in Threads :
        /\ IsCmp(memo, "P2wpkh", "P2wsh") /\ memo.ret = "Less"
        /\ IsCmp(last[t], "P2wsh", "P2tr") /\ last[t].ret = "Less"
        /\ IsCmp(last[Other(t)], "P2wpkh", "P2tr") /\ last[Other(t)].ret = "Less"

\* The operation op with arguments args, called directly on the unwrapped
\* inner descriptor of the variant that d's tag names.
OnInner(d, op, args) ==
    LET w == d.tag = "Wpkh"
        i == d.inner
    IN  CASE op = "default_keychain" ->
                IF w THEN Wpkh_default_keychain(i) ELSE TrKey_default_keychain(i)
          [] op = "keychains" -> IF w THEN Wpkh_keychains(i) ELSE TrKey_keychains(i)
          [] op = "derive" ->
                IF w THEN Wpkh_derive(i, args[1], args[2])
                     ELSE TrKey_derive(i, args[1], args[2])
          [] op = "class" -> IF w THEN Wpkh_class(i) ELSE TrKey_class(i)
          [] op = "keys" -> IF w THEN Wpkh_keys(i) ELSE TrKey_keys(i)
          [] op = "xpubs" -> IF w THEN Wpkh_xpubs(i) ELSE TrKey_xpubs(i)
          [] op = "compr_keyset" ->
                IF w THEN Wpkh_compr_keyset(i, args) ELSE TrKey_compr_keyset(i, args)
          [] op = "xonly_keyset" ->
                IF w THEN Wpkh_xonly_keyset(i, args) ELSE TrKey_xonly_keyset(i, args)

DispatchedOps ==
    {"default_keychain", "keychains", "derive", "class", "keys", "xpubs",
     "compr_keyset", "xonly_keyset"}

\* C2: for either tag and every dispatched operation, the result of the call
\* on the StdDescr equals the result of the same operation, with the same
\* arguments, on the inner descriptor of the active variant.
C2_DispatchToActiveVariant ==
    \A t \in Threads :
        last[t].op \in DispatchedOps =>
            last[t].ret = OnInner(descr, last[t].op, last[t].args)

C2_Witness ==
    \E t \in Threads :
        /\ descr.tag = "TrKey"
        /\ last[t].op = "derive"
        /\ last[t].ret = TrKey_derive(descr.inner, last[t].args[1], last[t].args[2])
        /\ last[t].ret[1] = "p2tr"
        /\ last[Other(t)].op = "xonly_keyset"
        /\ Len(last[Other(t)].ret) = 1

\* C3: a Wpkh descriptor's xonly_keyset is the empty mapping at every terminal,
\* and a TrKey descriptor's compr_keyset is the empty mapping at every terminal.
C3_KeysetDisjointByClass ==
    \A t \in Threads :
        /\ (descr.tag = "Wpkh" /\ last[t].op = "xonly_keyset") => last[t].ret = <<>>
        /\ (descr.tag = "TrKey" /\ last[t].op = "compr_keyset") => last[t].ret = <<>>

C3_Witness ==
    \E t \in Threads :
        /\ descr.tag = "Wpkh"
        /\ last[t].op = "xonly_keyset" /\ last[t].ret = <<>>
        /\ last[Other(t)].op = "compr_keyset" /\ Len(last[Other(t)].ret) = 1

OnValue(d, op, args) ==
    CASE op = "default_keychain" -> StdDescr_default_keychain(d)
      [] op = "keychains" -> StdDescr_keychains(d)
      [] op = "derive" -> StdDescr_derive(d, args[1], args[2])
      [] op = "class" -> StdDescr_class(d)
      [] op = "keys" -> StdDescr_keys(d)
      [] op = "vars" -> StdDescr_vars(d)
      [] op = "xpubs" -> StdDescr_xpubs(d)
      [] op = "compr_keyset" -> StdDescr_compr_keyset(d, args)
      [] op = "xonly_keyset" -> StdDescr_xonly_keyset(d, args)

\* C6: no operation changes the descriptor: after any interleaving of calls by
\* the callers its tag, key and xpub are those it was constructed with, and
\* every call returned what it returns on the freshly constructed value.
C6_NoMutation ==
    /\ descr = fresh
    /\ \A t \in Threads :
          last[t].op # "none" =>
              last[t].ret = OnValue(fresh, last[t].op, last[t].args)

C6_Witness ==
    \E t \in Threads :
        /\ memo.op = "xonly_keyset"
        /\ last[t].op = "derive"
        /\ last[Other(t)].op = "vars"
        /\ descr = fresh

\* C7: deserializing what serializing a StdDescr value produced yields an equal
\* value: the same variant tag and the same inner fields, for both variants.
C7_SerdeRoundTrip ==
    \A t \in Threads :
        last[t].op = "deserialize" =>
            \A d \in StdDescr :
                last[t].args = StdDescr_serialize(d) =>
                    /\ last[t].ret.ok
                    /\ last[t].ret.val = d
                    /\ last[t].ret.val.tag = d.tag

C7_Witness ==
    \E t \in Threads :
        /\ descr.tag = "TrKey"
        /\ last[Other(t)].op = "serialize"
        /\ last[t].op = "deserialize"
        /\ last[t].args = last[Other(t)].ret
        /\ last[t].ret.ok
        /\ last[t].ret.val = descr

\* C8: keys() yields exactly one key, the inner variant's keys in their order,
\* as a fresh sequence starting at its front, however far the sequences
\* returned earlier have been consumed.
C8_KeysOneRestartable ==
    \A t \in Threads :
        last[t].op = "keys" =>
            /\ Len(last[t].ret) = 1
            /\ last[t].ret[1] = descr.inner[1]
            /\ last[t].ret = OnInner(descr, "keys", <<>>)
            /\ iters[t] = [live |-> TRUE, rest |-> last[t].ret]

C8_Witness ==
    \E t \in Threads :
        /\ last[Other(t)].op = "next" /\ last[Other(t)].ret = <<>>
        /\ iters[Other(t)].live /\ iters[Other(t)].rest = <<>>
        /\ last[t].op = "keys"
        /\ last[t].ret = <<descr.inner[1]>>
        /\ iters[t].rest = last[t].ret

\* C9: vars() yields the empty sequence for a Wpkh and for a TrKey descriptor.
C9_VarsEmpty ==
    \A t \in Threads : last[t].op = "vars" => last[t].ret = <<>>

C9_Witness ==
    \E t \in Threads :
        /\ descr.tag = "TrKey"
        /\ last[t].op = "vars" /\ last[t].ret = <<>>
        /\ last[Other(t)].op = "keys" /\ Len(last[Other(t)].ret) = 1

====
